---- MODULE Spec2Model ----
(***************************************************************************)
(* Model of abogen_gradio.py: the PyQt6 shims MockSignal and MockQThread,  *)
(* the module-level log list with log_callback, and the Gradio handler     *)
(* run_conversion with the four subscribers it attaches to the signals of  *)
(* ConversionThread.                                                       *)
(*                                                                         *)
(* Strings that the program builds by formatting or joining are modelled   *)
(* as sequences of pieces: "\n".join(["a","b"]) is <<"a", "\n", "b">> and  *)
(* f"Error loading pipeline: {e}" is <<"Error loading pipeline: ", e>>.    *)
(* The text payload is the sequence of its characters, an uploaded file is *)
(* known by its name, and a file_name taken from it is <<name>>.           *)
(***************************************************************************)
EXTENDS Integers, Sequences, FiniteSets, TLC

\* ------------------------------------------------------------------ bounds
MaxCallbacks == 3      \* connect calls made on the stand-alone MockSignal
MaxJobs == 2           \* run_conversion invocations, one after another
MaxEmits == 2          \* notifications one worker publishes in Spec
MaxTextLen == 1        \* characters of the text payload
MaxOver == 2           \* log lines appended beyond the cap in SpecLog
MaxOtherLogs == 1      \* log lines the overlapping invocation's worker publishes

\* ------------------------------------------------------- program constants
LogCap == 1000         \* log_callback: len(logs) > 1000, logs[-1000:]

None == "<None>"
Jobs == 1 .. MaxJobs
\* the invocation that overlaps the others in SpecOverlap
Other == MaxJobs + 1
AllJobs == Jobs \cup {Other}

\* ---------------------------------------------------------------- helpers
Min(a, b) == IF a < b THEN a ELSE b

\* s[-n:] for n > 0: the last n elements (all of s when it is shorter)
LastN(s, n) == SubSeq(s, Len(s) - Min(n, Len(s)) + 1, Len(s))

\* where x first occurs in s (0 when it does not)
First(s, x) ==
    IF \E p \in 1 .. Len(s) : s[p] = x
      THEN CHOOSE p \in 1 .. Len(s) : s[p] = x /\ \A q \in 1 .. p - 1 : s[q] # x
      ELSE 0

\* every element of a occurs in b, and b holds them in a's order: from one
\* element of a to the next, the place of the first occurrence in b grows
ContainsInOrder(a, b) ==
    /\ \A i \in 1 .. Len(a) : First(b, a[i]) > 0
    /\ \A i \in 1 .. Len(a) - 1 : First(b, a[i]) < First(b, a[i + 1])

\* ================================================================ MockSignal
\* MockSignal.__init__: self.callbacks = []
MockSignal_init == <<>>

connect_replace(callbacks, callback) == <<callback>>
connect_prepend(callbacks, callback) == <<callback>> \o callbacks
\* MockSignal.connect: self.callbacks.append(callback)
connect(callbacks, callback) == Append(callbacks, callback)

emit_except_reraise(raised) == IF raised THEN "propagate" ELSE "next"
\* MockSignal.emit, the body of one iteration: try: callback(*args)
\* except Exception: print(...). Either way the loop goes on to the next
\* callback; "propagate" would leave emit with the exception.
emit_except(raised) == "next"

\* ========================================================= module-level state
Signals == {"conversion_finished", "log_updated", "progress_updated",
            "chapters_detected"}

LoadingLine == "Loading Kokoro pipeline..."
EstimatedChars == 1000   \* total_char_count of a job that reads a file

\* Gradio's queue runs the click handler's invocations one at a time, so one
\* invocation of run_conversion is live at any moment: cur counts the
\* invocations begun, and the variables of "the invocation" are those of
\* invocation cur. The ConversionThread objects and the result_container
\* dicts of earlier invocations stay alive in the closures of the callbacks
\* that are still connected, so these are kept for every invocation.
VARIABLES
    logs,              \* the module-level list logs
    signals,           \* ConversionThread's pyqtSignal attributes: the
                       \* callbacks list of each MockSignal
    thread,            \* per invocation: its ConversionThread's attributes
                       \* that callbacks write, and its _chapter_options_event
    result_container,  \* per invocation: its result_container dict
    cur,               \* invocations of run_conversion begun so far
    hpc,               \* position of the invocation
    locals,            \* its arguments and file_name, is_direct_text
    ctor_args,         \* what it passed to ConversionThread(...)
    ret,               \* the pair it returned
    wpc,               \* position of its thread's run()
    frame,             \* the emit call the thread is inside: signal, args, i
    budget,            \* notifications the thread may still publish
    loaded,            \* load_numpy_kpipeline was called by the invocation
    appended,          \* every line appended to logs since its last reset
    published,         \* lines the thread published on log_updated
    reported,          \* (status, path) pairs it published on conversion_finished
    wfault,            \* run() ended with an unhandled exception
    rc_accesses,       \* writes (by on_finished) and reads (by the handler) of
                       \* result_container dicts since the invocation began
    o_hpc,             \* position of the overlapping invocation
    o_wpc,             \* position of its thread's run()
    o_i,               \* position of the emit loop its thread is inside
    o_published,       \* lines its thread published on log_updated
    o_ret              \* the pair it returned

mvars == <<logs, signals, thread, result_container, cur, hpc, locals,
           ctor_args, ret, wpc, frame, budget, loaded, appended, published,
           reported, wfault, rc_accesses, o_hpc, o_wpc, o_i, o_published,
           o_ret>>
ovars == <<o_hpc, o_wpc, o_i, o_published, o_ret>>

\* ------------------------------------------ a MockSignal on its own
VARIABLES
    s_callbacks,   \* the stand-alone MockSignal's self.callbacks
    s_pc,          \* "idle" | "emitting" | "returned" | "propagated"
    s_i,           \* position of emit's for loop in s_callbacks
    s_calls,       \* callbacks invoked by the current emit: <<[cb, raised]>>
    s_connected,   \* the connect calls made so far, in call order
    s_printed      \* "Error in mock signal callback" lines printed by the emit

svars == <<s_callbacks, s_pc, s_i, s_calls, s_connected, s_printed>>
vars == <<s_callbacks, s_pc, s_i, s_calls, s_connected, s_printed,
          logs, signals, thread, result_container, cur, hpc, locals,
          ctor_args, ret, wpc, frame, budget, loaded, appended, published,
          reported, wfault, rc_accesses, o_hpc, o_wpc, o_i, o_published,
          o_ret>>

CallbackIds == 1 .. 2

SInit ==
    /\ s_callbacks = MockSignal_init
    /\ s_pc = "idle"
    /\ s_i = 0
    /\ s_calls = <<>>
    /\ s_connected = <<>>
    /\ s_printed = 0

\* signal.connect(cb), before an emit or between two emits
SConnect(cb) ==
    /\ s_pc \in {"idle", "returned"}
    /\ Len(s_connected) < MaxCallbacks
    /\ s_callbacks' = connect(s_callbacks, cb)
    /\ s_connected' = Append(s_connected, cb)
    /\ s_pc' = "idle"
    /\ s_calls' = <<>>
    /\ s_printed' = 0
    /\ s_i' = 0
    /\ UNCHANGED mvars

\* signal.emit(*args) is entered; with no callback the loop body never runs
SEmitBegin ==
    /\ s_pc \in {"idle", "returned"}
    /\ s_calls' = <<>>
    /\ s_printed' = 0
    /\ IF s_callbacks = <<>>
         THEN s_pc' = "returned" /\ s_i' = 0
         ELSE s_pc' = "emitting" /\ s_i' = 1
    /\ UNCHANGED <<s_callbacks, s_connected>>
    /\ UNCHANGED mvars

\* one iteration of emit's loop: the callback runs and returns or raises
SEmitCallback(raised) ==
    /\ s_pc = "emitting"
    /\ s_calls' = Append(s_calls, [cb |-> s_callbacks[s_i], raised |-> raised])
    /\ s_printed' = IF raised /\ emit_except(raised) = "next"
                      THEN s_printed + 1 ELSE s_printed
    /\ IF emit_except(raised) = "propagate"
         THEN s_pc' = "propagated" /\ s_i' = s_i
         ELSE IF s_i = Len(s_callbacks)
                THEN s_pc' = "returned" /\ s_i' = s_i
                ELSE s_pc' = "emitting" /\ s_i' = s_i + 1
    /\ UNCHANGED <<s_callbacks, s_connected>>
    /\ UNCHANGED mvars


NoFrame == [sig |-> "none", args |-> <<>>, i |-> 0]
NoLocals == [text_input |-> <<>>, file_input |-> None,
             file_name |-> <<>>, is_direct_text |-> FALSE, e |-> None]
NoArgs == [file_name |-> <<>>, is_direct_text |-> FALSE, total_char_count |-> 0]
NoThread == [merge_chapters_at_end |-> FALSE, save_chapters_separately |-> FALSE,
             event |-> FALSE]
NoResult == [status |-> None, path |-> None]
NoRet == [msg |-> <<>>, file |-> None]

\* ------------------------------------------------------------ pure helpers
Chars == {" ", "a"}
Texts == UNION {[1 .. n -> Chars] : n \in 0 .. MaxTextLen}
Files == {None, "book.txt"}
LoadFaults == {None, "No module named kokoro"}
OsFaults == {None, "Permission denied"}
CtorFaults == {None, "could not convert string to float"}

RECURSIVE lstrip(_)
lstrip(t) == IF t # <<>> /\ Head(t) = " " THEN lstrip(Tail(t)) ELSE t
RECURSIVE rstrip(_)
rstrip(t) == IF t # <<>> /\ t[Len(t)] = " "
               THEN rstrip(SubSeq(t, 1, Len(t) - 1)) ELSE t
\* str.strip(): leading and trailing whitespace removed
strip(t) == rstrip(lstrip(t))

\* truth value of a str-or-None (a path, a status)
Truthy(x) == x # None /\ x # ""

\* "\n".join(lines): the lines with a "\n" between each two
join(lines) ==
    [k \in 1 .. (IF lines = <<>> THEN 0 ELSE 2 * Len(lines) - 1) |->
        IF k % 2 = 1 THEN lines[(k + 1) \div 2] ELSE "\n"]

\* the lines of a text made by join: what text.split("\n") gives back
Lines(text) == [k \in 1 .. (Len(text) + 1) \div 2 |-> text[2 * k - 1]]

determine_input_nostrip(text_input, file_input) ==
    IF file_input # None
      THEN [ok |-> TRUE, file_name |-> <<file_input>>, is_direct_text |-> FALSE]
      ELSE IF text_input # <<>>
        THEN [ok |-> TRUE, file_name |-> text_input, is_direct_text |-> TRUE]
        ELSE [ok |-> FALSE, file_name |-> <<>>, is_direct_text |-> FALSE]
determine_input_accept(text_input, file_input) ==
    IF file_input # None
      THEN [ok |-> TRUE, file_name |-> <<file_input>>, is_direct_text |-> FALSE]
      ELSE [ok |-> TRUE, file_name |-> text_input, is_direct_text |-> TRUE]
\* run_conversion, "Determine input": the file wins when it is there, else
\* the text when text_input.strip() is not empty, else the error return
determine_input(text_input, file_input) ==
    IF file_input # None
      THEN [ok |-> TRUE, file_name |-> <<file_input>>, is_direct_text |-> FALSE]
      ELSE IF strip(text_input) # <<>>
        THEN [ok |-> TRUE, file_name |-> text_input, is_direct_text |-> TRUE]
        ELSE [ok |-> FALSE, file_name |-> <<>>, is_direct_text |-> FALSE]

log_callback_keep_oldest(l, msg) ==
    LET m == IF msg.kind = "tuple" THEN msg.val[1] ELSE msg.val
        a == Append(l, m)
    IN  IF Len(a) > LogCap THEN SubSeq(a, 1, LogCap) ELSE a
\* log_callback: a tuple message stands for its first element; the line is
\* appended and the list cut to its last 1000 entries
log_callback(l, msg) ==
    LET m == IF msg.kind = "tuple" THEN msg.val[1] ELSE msg.val
        a == Append(l, m)
    IN  IF Len(a) > LogCap THEN LastN(a, LogCap) ELSE a

\* return "Error: Please provide text or a file.", None
input_error_return ==
    [msg |-> <<"Error: Please provide text or a file.">>, file |-> None]

load_error_return_generic(e) == [msg |-> <<"Error loading pipeline">>, file |-> None]
\* except Exception as e: return f"Error loading pipeline: {e}", None
load_error_return(e) == [msg |-> <<"Error loading pipeline: ", e>>, file |-> None]

join_nowait(w) == TRUE
\* threading.Thread.join(), which MockQThread inherits: returns once run()
\* has ended, by return or by exception
join_returns(w) == w = "terminated"

join_propagates_fault(fault) == fault
\* threading.Thread.join() hands no exception of run() to its caller:
\* MockQThread neither overrides join nor keeps the exception of run()
join_propagates(fault) == FALSE

return_value_status(log_str, rc) ==
    IF Truthy(rc.status) THEN [msg |-> log_str, file |-> rc.status]
    ELSE [msg |-> log_str, file |-> None]
return_value_else_error(log_str, rc) ==
    IF Truthy(rc.path) THEN [msg |-> log_str, file |-> rc.path]
    ELSE [msg |-> <<"Error: no output produced">>, file |-> None]
\* run_conversion, "Return result"
return_value(log_str, rc) ==
    IF Truthy(rc.path) THEN [msg |-> log_str, file |-> rc.path]
    ELSE [msg |-> log_str, file |-> None]

on_chapters_detected_event_only(t) == [t EXCEPT !.event = TRUE]
on_chapters_detected_no_set(t) ==
    [t EXCEPT !.save_chapters_separately = FALSE, !.merge_chapters_at_end = TRUE]
\* on_chapters_detected: the default decision is written to the thread
\* object, then its _chapter_options_event is set
on_chapters_detected(t) ==
    [t EXCEPT !.save_chapters_separately = FALSE, !.merge_chapters_at_end = TRUE,
              !.event = TRUE]

\* =========================================================== run_conversion
MInit ==
    /\ logs = <<>>
    /\ signals = [g \in Signals |-> MockSignal_init]
    /\ thread = [j \in AllJobs |-> NoThread]
    /\ result_container = [j \in AllJobs |-> NoResult]
    /\ cur = 0
    /\ hpc = "idle"
    /\ locals = NoLocals
    /\ ctor_args = NoArgs
    /\ ret = NoRet
    /\ wpc = "none"
    /\ frame = NoFrame
    /\ budget = 0
    /\ loaded = FALSE
    /\ appended = <<>>
    /\ published = <<>>
    /\ reported = <<>>
    /\ wfault = FALSE
    /\ rc_accesses = <<>>
    /\ o_hpc = "idle"
    /\ o_wpc = "none"
    /\ o_i = 0
    /\ o_published = <<>>
    /\ o_ret = NoRet

Init == SInit /\ MInit

\* one access to the result_container of invocation j, with where the
\* invocation's run() was when it happened
Access(op, j) == [op |-> op, job |-> j, worker |-> wpc]

\* the invocation is over: it returned a pair or an exception left it
Over == hpc \in {"returned", "raised"}

\* run_conversion is entered and runs up to the pipeline load: logs is
\* reset, the input is chosen or refused, the loading line is appended and
\* the pipeline loaded
run_conversion_input(text_input, file_input, load_fault) ==
    LET d == determine_input(text_input, file_input) IN
    /\ hpc = "idle" \/ Over
    /\ cur < MaxJobs
    /\ cur' = cur + 1
    /\ locals' = [text_input |-> text_input, file_input |-> file_input,
                  file_name |-> d.file_name, is_direct_text |-> d.is_direct_text,
                  e |-> IF d.ok THEN load_fault ELSE None]
    /\ IF ~d.ok
         THEN /\ logs' = <<>>
              /\ appended' = <<>>
              /\ ret' = input_error_return
              /\ hpc' = "returned"
              /\ loaded' = FALSE
         ELSE /\ logs' = <<LoadingLine>>
              /\ appended' = <<LoadingLine>>
              /\ loaded' = TRUE
              /\ IF load_fault # None
                   THEN /\ ret' = load_error_return(load_fault)
                        /\ hpc' = "returned"
                   ELSE /\ ret' = NoRet
                        /\ hpc' = "loaded"
    /\ ctor_args' = NoArgs
    /\ wpc' = "none"
    /\ frame' = NoFrame
    /\ budget' = 0
    /\ published' = <<>>
    /\ reported' = <<>>
    /\ wfault' = FALSE
    /\ rc_accesses' = <<>>
    /\ UNCHANGED <<signals, thread, result_container>>
    /\ UNCHANGED <<svars, ovars>>

Callback(fn, j) == [fn |-> fn, job |-> j]

Subscriber_no_chapters(sig) ==
    CASE sig = "conversion_finished" -> "on_finished"
      [] sig = "log_updated" -> "on_log"
      [] sig = "progress_updated" -> "on_progress"
      [] OTHER -> None
\* the closure run_conversion connects to each signal of its thread before
\* it starts the thread
Subscriber(sig) ==
    CASE sig = "conversion_finished" -> "on_finished"
      [] sig = "log_updated" -> "on_log"
      [] sig = "progress_updated" -> "on_progress"
      [] sig = "chapters_detected" -> "on_chapters_detected"

\* run_conversion from os.makedirs to the last connect: the output folder,
\* the ConversionThread with its attributes, result_container, and the four
\* subscribers connected to the thread's signals
run_conversion_setup(os_fault, ctor_fault) ==
    /\ hpc = "loaded"
    /\ IF os_fault # None
         THEN \* os.makedirs is outside the try statement
              /\ hpc' = "raised"
              /\ UNCHANGED <<signals, thread, result_container, ret, wpc,
                             ctor_args, budget>>
         ELSE IF ctor_fault # None
           THEN /\ ret' = [msg |-> <<"Error: ", ctor_fault, "\n", "Traceback">>,
                           file |-> None]
                /\ hpc' = "returned"
                /\ UNCHANGED <<signals, thread, result_container, wpc,
                               ctor_args, budget>>
           ELSE /\ ctor_args' =
                    [file_name |-> locals.file_name,
                     is_direct_text |-> locals.is_direct_text,
                     total_char_count |->
                        IF locals.is_direct_text
                          THEN Len(locals.text_input) ELSE EstimatedChars]
                /\ thread' = [thread EXCEPT ![cur] =
                    [merge_chapters_at_end |-> TRUE,
                     save_chapters_separately |-> FALSE,
                     event |-> FALSE]]
                /\ result_container' = [result_container EXCEPT ![cur] = NoResult]
                /\ signals' = [g \in Signals |->
                     IF Subscriber(g) # None
                       THEN connect(signals[g], Callback(Subscriber(g), cur))
                       ELSE signals[g]]
                /\ wpc' = "created"
                /\ budget' = MaxEmits
                /\ hpc' = "connected"
                /\ UNCHANGED ret
    /\ UNCHANGED <<logs, cur, locals, frame, loaded, appended, published,
                   reported, wfault>>
    /\ UNCHANGED <<svars, ovars, rc_accesses>>

\* thread.start(): MockQThread.start calls threading.Thread.start
thread_start ==
    /\ hpc = "connected"
    /\ hpc' = "started"
    /\ wpc' = "run"
    /\ UNCHANGED <<logs, signals, thread, result_container, cur, locals,
                   ctor_args, ret, frame, budget, loaded, appended, published,
                   reported, wfault>>
    /\ UNCHANGED <<svars, ovars, rc_accesses>>

\* thread.join() returns; an exception leaving it would be caught by the
\* except clause of the try statement it is in
thread_join ==
    /\ hpc = "started"
    /\ join_returns(wpc)
    /\ IF join_propagates(wfault)
         THEN /\ ret' = [msg |-> <<"Error: ", "fault in run()", "\n", "Traceback">>,
                         file |-> None]
              /\ hpc' = "returned"
         ELSE /\ hpc' = "joined"
              /\ UNCHANGED ret
    /\ UNCHANGED <<logs, signals, thread, result_container, cur, locals,
                   ctor_args, wpc, frame, budget, loaded, appended,
                   published, reported, wfault>>
    /\ UNCHANGED <<svars, ovars, rc_accesses>>

\* run_conversion after the join: the log text and the pair returned
run_conversion_return ==
    /\ hpc = "joined"
    /\ ret' = return_value(join(logs), result_container[cur])
    /\ rc_accesses' = Append(rc_accesses, Access("read", cur))
    /\ hpc' = "returned"
    /\ UNCHANGED <<logs, signals, thread, result_container, cur, locals,
                   ctor_args, wpc, frame, budget, loaded, appended, published,
                   reported, wfault>>
    /\ UNCHANGED <<svars, ovars>>

\* ======================================================== the worker thread
\* where run() goes on once an emit has returned: after chapters_detected it
\* waits on _chapter_options_event
AfterEmit(sig) == IF sig = "chapters_detected" THEN "wait" ELSE "run"

\* run() calls sig.emit(*args)
Publish(sig, args) ==
    /\ wpc = "run"
    /\ budget > 0
    /\ budget' = budget - 1
    /\ IF signals[sig] = <<>>
         THEN wpc' = AfterEmit(sig) /\ frame' = NoFrame
         ELSE wpc' = "emit" /\ frame' = [sig |-> sig, args |-> args, i |-> 1]

LogMsg(kind, text) ==
    IF kind = "tuple" THEN [kind |-> kind, val |-> <<text, "grey">>]
    ELSE [kind |-> kind, val |-> text]

\* run() publishes a log line, a str or a (str, color) tuple
run_log_updated(kind) ==
    LET text == "line " \o ToString(Len(published) + 1) IN
    /\ Publish("log_updated", <<LogMsg(kind, text)>>)
    /\ published' = Append(published, text)
    /\ UNCHANGED <<logs, signals, thread, result_container, cur, hpc, locals,
                   ctor_args, ret, loaded, appended, reported, wfault>>
    /\ UNCHANGED <<svars, ovars, rc_accesses>>

\* run() publishes its progress
run_progress_updated ==
    /\ Publish("progress_updated", <<50, "00:01">>)
    /\ UNCHANGED <<logs, signals, thread, result_container, cur, hpc, locals,
                   ctor_args, ret, loaded, appended, published, reported, wfault>>
    /\ UNCHANGED <<svars, ovars, rc_accesses>>

\* run() publishes chapters_detected; it will wait for the event after it.
\* The engine may have cleared the event and dropped the decision on the
\* chapters before it asks.
run_chapters_detected(clear) ==
    /\ Publish("chapters_detected", <<2>>)
    /\ thread' = [thread EXCEPT ![cur] = IF clear THEN NoThread ELSE @]
    /\ UNCHANGED <<logs, signals, result_container, cur, hpc, locals,
                   ctor_args, ret, loaded, appended, published, reported, wfault>>
    /\ UNCHANGED <<svars, ovars, rc_accesses>>

FinishedArgs == {<<"Finished", "output/book.mp3">>, <<"Error", None>>,
                 <<"Finished", "">>}

\* run() publishes conversion_finished(status, path), once in a job
run_conversion_finished(args) ==
    /\ reported = <<>>
    /\ Publish("conversion_finished", args)
    /\ reported' = Append(reported, args)
    /\ UNCHANGED <<logs, signals, thread, result_container, cur, hpc, locals,
                   ctor_args, ret, loaded, appended, published, wfault>>
    /\ UNCHANGED <<svars, ovars, rc_accesses>>

\* _chapter_options_event.wait() returns
run_wait ==
    /\ wpc = "wait"
    /\ thread[cur].event
    /\ wpc' = "run"
    /\ UNCHANGED <<logs, signals, thread, result_container, cur, hpc, locals,
                   ctor_args, ret, frame, budget, loaded, appended, published,
                   reported, wfault>>
    /\ UNCHANGED <<svars, ovars, rc_accesses>>

\* run() ends: it returns, or an exception leaves it
run_end(fault) ==
    /\ wpc = "run"
    /\ wpc' = "terminated"
    /\ wfault' = fault
    /\ UNCHANGED <<logs, signals, thread, result_container, cur, hpc, locals,
                   ctor_args, ret, frame, budget, loaded, appended, published,
                   reported>>
    /\ UNCHANGED <<svars, ovars, rc_accesses>>

\* emit's loop after the callback at frame.i: the exception leaves emit and
\* run(), or the loop goes to the next callback, or emit returns
Advance(raised) ==
    IF emit_except(raised) = "propagate"
      THEN /\ wpc' = "terminated"
           /\ frame' = NoFrame
           /\ wfault' = TRUE
      ELSE /\ IF frame.i >= Len(signals[frame.sig])
                THEN wpc' = AfterEmit(frame.sig) /\ frame' = NoFrame
                ELSE wpc' = "emit" /\ frame' = [frame EXCEPT !.i = @ + 1]
           /\ UNCHANGED wfault

\* the callback emit's loop is at
Current == signals[frame.sig][frame.i]

\* emit calls on_log(msg): log_callback(msg)
emit_on_log ==
    LET msg == frame.args[1] IN
    /\ wpc = "emit"
    /\ Current.fn = "on_log"
    /\ logs' = log_callback(logs, msg)
    /\ appended' = Append(appended, IF msg.kind = "tuple" THEN msg.val[1] ELSE msg.val)
    /\ Advance(FALSE)
    /\ UNCHANGED <<signals, thread, result_container, cur, hpc, locals,
                   ctor_args, ret, budget, loaded, published, reported>>
    /\ UNCHANGED <<svars, ovars, rc_accesses>>

\* emit calls on_progress(p, etr): progress(...) returns or raises
emit_on_progress(raised) ==
    /\ wpc = "emit"
    /\ Current.fn = "on_progress"
    /\ Advance(raised)
    /\ UNCHANGED <<logs, signals, thread, result_container, cur, hpc, locals,
                   ctor_args, ret, budget, loaded, appended, published, reported>>
    /\ UNCHANGED <<svars, ovars, rc_accesses>>

\* emit calls on_chapters_detected(count): the defaults, then the event is
\* set, on the thread object of the invocation that made the callback
emit_on_chapters_detected ==
    LET k == Current.job IN
    /\ wpc = "emit"
    /\ Current.fn = "on_chapters_detected"
    /\ thread' = [thread EXCEPT ![k] = on_chapters_detected(@)]
    /\ Advance(FALSE)
    /\ UNCHANGED <<logs, signals, result_container, cur, hpc, locals,
                   ctor_args, ret, budget, loaded, appended, published, reported>>
    /\ UNCHANGED <<svars, ovars, rc_accesses>>

\* emit calls on_finished(status, path): result_container["status"] = status
emit_on_finished_status ==
    LET k == Current.job IN
    /\ wpc = "emit"
    /\ Current.fn = "on_finished"
    /\ result_container' = [result_container EXCEPT ![k].status = frame.args[1]]
    /\ rc_accesses' = Append(rc_accesses, Access("write", k))
    /\ wpc' = "on_finished"
    /\ UNCHANGED <<logs, signals, thread, cur, hpc, locals, ctor_args, ret,
                   frame, budget, loaded, appended, published, reported, wfault>>
    /\ UNCHANGED <<svars, ovars>>

\* on_finished goes on: result_container["path"] = path, and returns to emit
emit_on_finished_path ==
    LET k == Current.job IN
    /\ wpc = "on_finished"
    /\ result_container' = [result_container EXCEPT ![k].path = frame.args[2]]
    /\ Advance(FALSE)
    /\ UNCHANGED <<logs, signals, thread, cur, hpc, locals, ctor_args, ret,
                   budget, loaded, appended, published, reported>>
    /\ UNCHANGED <<svars, ovars, rc_accesses>>

Next ==
    \/ \E t \in Texts, f \in Files, lf \in LoadFaults :
          run_conversion_input(t, f, lf)
    \/ \E of \in OsFaults, cf \in CtorFaults : run_conversion_setup(of, cf)
    \/ thread_start
    \/ thread_join
    \/ run_conversion_return
    \/ \E kind \in {"str", "tuple"} : run_log_updated(kind)
    \/ run_progress_updated
    \/ \E clear \in BOOLEAN : run_chapters_detected(clear)
    \/ \E args \in FinishedArgs : run_conversion_finished(args)
    \/ run_wait
    \/ \E fault \in BOOLEAN : run_end(fault)
    \/ emit_on_log
    \/ \E raised \in BOOLEAN : emit_on_progress(raised)
    \/ emit_on_chapters_detected
    \/ emit_on_finished_status
    \/ emit_on_finished_path

Spec == Init /\ [][Next]_vars

\* ------------------------------------------------- the stand-alone signal
SNext ==
    \/ \E cb \in CallbackIds : SConnect(cb)
    \/ SEmitBegin
    \/ \E raised \in BOOLEAN : SEmitCallback(raised)

SpecSignal == Init /\ [][SNext]_vars


\* ------------------------------------------------------ fair scheduling
\* every step of the worker thread
Worker ==
    \/ \E kind \in {"str", "tuple"} : run_log_updated(kind)
    \/ run_progress_updated
    \/ \E clear \in BOOLEAN : run_chapters_detected(clear)
    \/ \E args \in FinishedArgs : run_conversion_finished(args)
    \/ run_wait
    \/ \E fault \in BOOLEAN : run_end(fault)
    \/ emit_on_log
    \/ \E raised \in BOOLEAN : emit_on_progress(raised)
    \/ emit_on_chapters_detected
    \/ emit_on_finished_status
    \/ emit_on_finished_path

\* The operating system keeps scheduling a thread that can run: the worker
\* takes a step while it has one, and the handler leaves join and returns
\* once it can. That a request arrives at all is not assumed.
SpecLive ==
    /\ Init /\ [][Next]_vars
    /\ WF_vars(Worker)
    /\ WF_vars(thread_join \/ run_conversion_return)

\* ------------------------------------------------- jobs with long logs
\* The notifications the worker of the job publishes: a few, or just short
\* of the cap of the log list, or beyond it.
JobLengths == {MaxOver, LogCap - 1, LogCap + MaxOver}

\* Invocation c has just started its thread on the text "a": the earlier
\* invocations each ran a job, so their callbacks are still connected.
InitLog ==
    /\ SInit
    /\ \E c \in Jobs, n \in JobLengths :
        /\ cur = c
        /\ budget = n
        /\ signals =
             [g \in Signals |->
                [k \in 1 .. c |->
                    Callback(CASE g = "conversion_finished" -> "on_finished"
                               [] g = "log_updated" -> "on_log"
                               [] g = "progress_updated" -> "on_progress"
                               [] OTHER -> "on_chapters_detected", k)]]
        /\ thread = [j \in AllJobs |->
                       IF j <= c THEN [merge_chapters_at_end |-> TRUE,
                                       save_chapters_separately |-> FALSE,
                                       event |-> FALSE]
                       ELSE NoThread]
    /\ logs = <<LoadingLine>>
    /\ appended = <<LoadingLine>>
    /\ result_container = [j \in AllJobs |-> NoResult]
    /\ hpc = "started"
    /\ locals = [text_input |-> <<"a">>, file_input |-> None,
                 file_name |-> <<"a">>, is_direct_text |-> TRUE, e |-> None]
    /\ ctor_args = [file_name |-> <<"a">>, is_direct_text |-> TRUE,
                    total_char_count |-> 1]
    /\ ret = NoRet
    /\ wpc = "run"
    /\ frame = NoFrame
    /\ loaded = TRUE
    /\ published = <<>>
    /\ reported = <<>>
    /\ wfault = FALSE
    /\ rc_accesses = <<>>
    /\ o_hpc = "idle"
    /\ o_wpc = "none"
    /\ o_i = 0
    /\ o_published = <<>>
    /\ o_ret = NoRet

\* run() of the job ends when it has published all it had to
run_end_exhausted(fault) == budget = 0 /\ run_end(fault)

NextLog ==
    \/ \E kind \in {"str", "tuple"} : run_log_updated(kind)
    \/ emit_on_log
    \/ run_conversion_finished(<<"Finished", "output/book.mp3">>)
    \/ emit_on_finished_status
    \/ emit_on_finished_path
    \/ \E fault \in BOOLEAN : run_end_exhausted(fault)
    \/ thread_join
    \/ run_conversion_return

SpecLog == InitLog /\ [][NextLog]_vars


\* ------------------------------------------- two invocations that overlap
\* A second invocation of run_conversion, on another thread of the server,
\* runs while the first is under way. It is given the text "a", its pipeline
\* load and its constructor succeed, and its worker publishes log lines
\* only. Its steps are those of run_conversion on the same module-level
\* logs and the same signals.
MainVars == <<cur, hpc, locals, ctor_args, ret, wpc, frame, budget, loaded,
              published, reported, wfault, rc_accesses>>

\* logs = [], then logs.append("Loading Kokoro pipeline...") and the load
o_run_conversion_input ==
    /\ o_hpc = "idle"
    /\ logs' = <<LoadingLine>>
    /\ appended' = <<LoadingLine>>
    /\ o_hpc' = "loaded"
    /\ UNCHANGED <<signals, thread, result_container, MainVars>>
    /\ UNCHANGED <<o_wpc, o_i, o_published, o_ret>>
    /\ UNCHANGED svars

\* from os.makedirs to the last connect
o_run_conversion_setup ==
    /\ o_hpc = "loaded"
    /\ thread' = [thread EXCEPT ![Other] =
          [merge_chapters_at_end |-> TRUE, save_chapters_separately |-> FALSE,
           event |-> FALSE]]
    /\ result_container' = [result_container EXCEPT ![Other] = NoResult]
    /\ signals' = [g \in Signals |->
          IF Subscriber(g) # None
            THEN connect(signals[g], Callback(Subscriber(g), Other))
            ELSE signals[g]]
    /\ o_wpc' = "created"
    /\ o_hpc' = "connected"
    /\ UNCHANGED <<logs, appended, MainVars>>
    /\ UNCHANGED <<o_i, o_published, o_ret>>
    /\ UNCHANGED svars

\* thread.start()
o_thread_start ==
    /\ o_hpc = "connected"
    /\ o_hpc' = "started"
    /\ o_wpc' = "run"
    /\ UNCHANGED <<logs, appended, signals, thread, result_container, MainVars>>
    /\ UNCHANGED <<o_i, o_published, o_ret>>
    /\ UNCHANGED svars

\* its run() publishes a log line
o_run_log_updated ==
    /\ o_wpc = "run"
    /\ Len(o_published) < MaxOtherLogs
    /\ o_published' = Append(o_published, "other " \o ToString(Len(o_published) + 1))
    /\ IF signals["log_updated"] = <<>>
         THEN o_wpc' = "run" /\ o_i' = 0
         ELSE o_wpc' = "emit" /\ o_i' = 1
    /\ UNCHANGED <<logs, appended, signals, thread, result_container, MainVars>>
    /\ UNCHANGED <<o_hpc, o_ret>>
    /\ UNCHANGED svars

\* emit calls the on_log at o_i: log_callback(msg)
o_emit_on_log ==
    LET msg == LogMsg("str", o_published[Len(o_published)]) IN
    /\ o_wpc = "emit"
    /\ logs' = log_callback(logs, msg)
    /\ appended' = Append(appended, msg.val)
    /\ IF o_i >= Len(signals["log_updated"])
         THEN o_wpc' = "run" /\ o_i' = 0
         ELSE o_wpc' = "emit" /\ o_i' = o_i + 1
    /\ UNCHANGED <<signals, thread, result_container, MainVars>>
    /\ UNCHANGED <<o_hpc, o_published, o_ret>>
    /\ UNCHANGED svars

\* its run() ends
o_run_end ==
    /\ o_wpc = "run"
    /\ o_wpc' = "terminated"
    /\ UNCHANGED <<logs, appended, signals, thread, result_container, MainVars>>
    /\ UNCHANGED <<o_hpc, o_i, o_published, o_ret>>
    /\ UNCHANGED svars

\* thread.join() returns
o_thread_join ==
    /\ o_hpc = "started"
    /\ join_returns(o_wpc)
    /\ o_hpc' = "joined"
    /\ UNCHANGED <<logs, appended, signals, thread, result_container, MainVars>>
    /\ UNCHANGED <<o_wpc, o_i, o_published, o_ret>>
    /\ UNCHANGED svars

\* the log text and the pair returned
o_run_conversion_return ==
    /\ o_hpc = "joined"
    /\ o_ret' = return_value(join(logs), result_container[Other])
    /\ o_hpc' = "returned"
    /\ UNCHANGED <<logs, appended, signals, thread, result_container, MainVars>>
    /\ UNCHANGED <<o_wpc, o_i, o_published>>
    /\ UNCHANGED svars

\* the first invocation is entered once
run_conversion_input_once(text_input, file_input, load_fault) ==
    cur = 0 /\ run_conversion_input(text_input, file_input, load_fault)

NextOverlap ==
    \/ \E t \in Texts, f \in Files, lf \in LoadFaults :
          run_conversion_input_once(t, f, lf)
    \/ \E of \in OsFaults, cf \in CtorFaults : run_conversion_setup(of, cf)
    \/ thread_start
    \/ thread_join
    \/ run_conversion_return
    \/ \E kind \in {"str", "tuple"} : run_log_updated(kind)
    \/ run_progress_updated
    \/ \E clear \in BOOLEAN : run_chapters_detected(clear)
    \/ \E args \in FinishedArgs : run_conversion_finished(args)
    \/ run_wait
    \/ \E fault \in BOOLEAN : run_end(fault)
    \/ emit_on_log
    \/ \E raised \in BOOLEAN : emit_on_progress(raised)
    \/ emit_on_chapters_detected
    \/ emit_on_finished_status
    \/ emit_on_finished_path
    \/ o_run_conversion_input
    \/ o_run_conversion_setup
    \/ o_thread_start
    \/ o_run_log_updated
    \/ o_emit_on_log
    \/ o_run_end
    \/ o_thread_join
    \/ o_run_conversion_return

SpecOverlap == Init /\ [][NextOverlap]_vars


\* ================================================================== claims
\* the callbacks an emit has invoked so far, in the order it invoked them
Invoked == [k \in 1 .. Len(s_calls) |-> s_calls[k].cb]
\* the invocations of the emit that raised
Raising == {k \in 1 .. Len(s_calls) : s_calls[k].raised}

\* C1: after any connect calls, an emit that has ended has invoked every
\* connected callback exactly once, in the order of the connect calls,
\* whichever of them raised; while it runs, it has invoked the first of them
\* in that order.
C1_EmitInvokesEachOnceInOrder ==
    /\ s_pc \in {"returned", "propagated"} => Invoked = s_connected
    /\ s_pc = "emitting" => Invoked = SubSeq(s_connected, 1, Len(s_calls))

C1_Witness ==
    /\ s_pc = "returned"
    /\ Len(s_calls) = 3
    /\ s_calls[1].raised
    /\ s_connected[1] # s_connected[2]

\* C2: a callback's exception never leaves emit: emit prints one line for
\* each callback that raised, goes on to the callbacks after it, and returns.
C2_FaultCaughtInsideEmit ==
    /\ s_pc # "propagated"
    /\ s_pc = "emitting" => s_i = Len(s_calls) + 1 /\ s_i <= Len(s_callbacks)
    /\ s_pc = "returned" =>
          /\ Len(s_calls) = Len(s_callbacks)
          /\ s_printed = Cardinality(Raising)

C2_Witness ==
    /\ s_pc = "returned"
    /\ \E k \in Raising : k < Len(s_calls) /\ ~s_calls[k + 1].raised

\* what a conversion_finished subscriber has written once it has returned
Written ==
    IF reported = <<>> THEN NoResult
    ELSE [status |-> reported[1][1], path |-> reported[1][2]]

\* C3: once thread.join() has returned, run() has ended: the result
\* container holds both fields of what was reported (or neither), and every
\* published line has reached the log list through each connected on_log.
C3_JoinAfterWorkerDone ==
    hpc \in {"joined", "returned"} /\ wpc # "none" =>
        /\ wpc = "terminated"
        /\ result_container[cur] = Written
        /\ Len(appended) = 1 + Len(published) * Len(signals["log_updated"])
        /\ hpc = "returned" => ret = return_value(join(logs), Written)

C3_Witness ==
    /\ hpc = "returned"
    /\ reported # <<>>
    /\ ret.file = "output/book.mp3"
    /\ published # <<>>

\* C4: a worker that waits on its chapter-options event resumes, and a
\* handler that has started its thread returns.
C4_ChaptersNeverDeadlock ==
    /\ (wpc = "wait") ~> (wpc = "run")
    /\ (hpc = "started") ~> (hpc = "returned")

C4_Witness ==
    /\ hpc = "returned"
    /\ cur = 2
    /\ budget = 0
    /\ thread[cur].event
    /\ published = <<>> /\ reported = <<>> /\ ~wfault

\* the request of the invocation has no file and a blank text
BlankRequest == cur > 0 /\ locals.file_input = None /\ strip(locals.text_input) = <<>>

\* C5: a request with no file and an empty or whitespace-only text is
\* answered with the error message and None, with no pipeline load, no
\* ConversionThread made and none started.
C5_BlankRequestRefused ==
    BlankRequest =>
        /\ hpc = "returned"
        /\ ret = [msg |-> <<"Error: Please provide text or a file.">>, file |-> None]
        /\ ~loaded
        /\ wpc = "none"
        /\ ctor_args = NoArgs

C5_Witness == BlankRequest /\ locals.text_input = <<" ">> /\ cur = 2

\* the thread of the invocation has been started
Started == wpc \notin {"none", "created"}
HasFile == locals.file_input # None
HasText == strip(locals.text_input) # <<>>

\* C6 as claimed: a worker is started only when exactly one of text and file
\* is given.
C6_StartedOnlyWithExactlyOne == Started => (HasFile /\ ~HasText) \/ (HasText /\ ~HasFile)

\* C6 amended: a worker is started only when at least one of text and file
\* is given; with a file the worker gets the file and the text is ignored,
\* else it gets the text.
C6_StartedOnlyWithInput ==
    Started =>
        /\ HasFile \/ HasText
        /\ HasFile => ctor_args.file_name = <<locals.file_input>>
                      /\ ~ctor_args.is_direct_text
        /\ ~HasFile => ctor_args.file_name = locals.text_input
                       /\ ctor_args.is_direct_text

C6_Witness == Started /\ HasFile /\ HasText

\* C7: when load_numpy_kpipeline raised, the invocation has returned a
\* message that holds the exception's text, and None, and no
\* ConversionThread was made or started.
C7_LoadFaultReported ==
    cur > 0 /\ locals.e # None =>
        /\ hpc = "returned"
        /\ \E k \in 1 .. Len(ret.msg) : ret.msg[k] = locals.e
        /\ ret.file = None
        /\ wpc = "none"
        /\ ctor_args = NoArgs

C7_Witness == cur > 0 /\ locals.e # None /\ loaded /\ locals.text_input = <<"a">>

\* the job was given a text, loaded the pipeline, and its worker reported an
\* output path; the invocation has returned
FinishedWithPath ==
    /\ hpc = "returned"
    /\ ~HasFile /\ HasText
    /\ reported # <<>>
    /\ Truthy(reported[1][2])

\* the log lines of the job: the loading line, then the published lines
Produced == <<LoadingLine>> \o published

\* C8 as claimed: the returned log text holds every log line of the job in
\* the order produced, and the returned file is the reported path.
C8_AllLinesReturned ==
    FinishedWithPath =>
        /\ ContainsInOrder(Produced, Lines(ret.msg))
        /\ ret.file = reported[1][2]

\* C8 amended: the returned log text is the newline-join of the last
\* min(n, 1000) of the n lines appended to the log list in the job, in the
\* order produced; it holds every log line of the job when n <= 1000; the
\* returned file is the reported path.
C8_LastLinesReturned ==
    FinishedWithPath =>
        /\ ret.msg = join(LastN(appended, LogCap))
        /\ Lines(ret.msg) = LastN(appended, LogCap)
        /\ Len(appended) <= LogCap => ContainsInOrder(Produced, Lines(ret.msg))
        /\ \A i \in 1 .. Len(published) :
              \A k \in 1 .. Len(signals["log_updated"]) :
                  appended[1 + (i - 1) * Len(signals["log_updated"]) + k] = published[i]
        /\ ret.file = reported[1][2]

C8_Witness ==
    /\ FinishedWithPath
    /\ Len(appended) > LogCap
    /\ Len(Lines(ret.msg)) = LogCap
    /\ ret.file = "output/book.mp3"

\* C9: when run() has ended and conversion_finished was never published, the
\* invocation returns None with the log text of the job, and the result
\* container has both fields unset.
C9_NoFinishedNoFile ==
    hpc = "returned" /\ wpc = "terminated" /\ reported = <<>> =>
        /\ ret.file = None
        /\ ret.msg = join(LastN(appended, LogCap))
        /\ result_container[cur] = NoResult

C9_Witness ==
    /\ hpc = "returned" /\ wpc = "terminated" /\ reported = <<>>
    /\ Len(published) = 2
    /\ cur = 2

\* C10: the log list never holds more than 1000 entries, and it holds the
\* last min(n, 1000) of the n lines appended, in their order.
C10_LogsAreLastThousand ==
    /\ Len(logs) <= LogCap
    /\ Len(logs) = Min(Len(appended), LogCap)
    /\ logs = LastN(appended, LogCap)

C10_Witness ==
    /\ Len(appended) = LogCap + MaxOver
    /\ Len(logs) = LogCap
    /\ logs[1] # LoadingLine

\* C11 as claimed: no exception raised during an invocation of run_conversion
\* leaves it; the invocation ends by returning a pair. os.makedirs is called
\* between the two try statements, so its exception leaves run_conversion.
C11_NoFaultEscapes == hpc # "raised"

\* the worker's run() ended with an unhandled exception and the invocation
\* has returned
FaultedAndReturned == wfault /\ wpc = "terminated" /\ hpc = "returned"

\* C12 as claimed: when run() ended with an unhandled exception, join has
\* returned, the result container has both fields unset, and the invocation
\* returns the log text with None.
C12_FaultLeavesContainerUnset ==
    FaultedAndReturned =>
        /\ result_container[cur] = NoResult
        /\ ret = [msg |-> join(LastN(appended, LogCap)), file |-> None]

\* C12 amended: when run() ended with an unhandled exception, join returns
\* all the same and no exception reaches the handler; the result container
\* holds what the worker published on conversion_finished before the
\* exception (both fields unset when it published nothing), and the
\* invocation returns the log text with the published path when that is
\* non-empty, else with None.
C12_FaultNotPropagated ==
    wfault /\ wpc = "terminated" =>
        /\ hpc \in {"started", "joined", "returned"}
        /\ hpc = "started" => ENABLED thread_join
        /\ hpc \in {"joined", "returned"} => result_container[cur] = Written
        /\ hpc = "returned" =>
              /\ ret.msg = join(LastN(appended, LogCap))
              /\ ret.file = IF reported # <<>> /\ Truthy(reported[1][2])
                              THEN reported[1][2] ELSE None
              /\ reported = <<>> => result_container[cur] = NoResult

C12_Witness ==
    /\ FaultedAndReturned
    /\ reported # <<>>
    /\ ret.file = "output/book.mp3"
    /\ published # <<>>
    /\ cur = 1

\* the places in rc_accesses of the writes to the result_container of job j
WritesOf(j) == {i \in 1 .. Len(rc_accesses) :
                  rc_accesses[i].op = "write" /\ rc_accesses[i].job = j}

Attached(g, fn, j) == \E k \in 1 .. Len(signals[g]) : signals[g][k] = Callback(fn, j)

\* the four subscribers of invocation j are connected
AllAttached(j) ==
    /\ Attached("conversion_finished", "on_finished", j)
    /\ Attached("log_updated", "on_log", j)
    /\ Attached("progress_updated", "on_progress", j)
    /\ Attached("chapters_detected", "on_chapters_detected", j)

\* C14: from before thread.start() on, the four subscribers of the
\* invocation are connected, so an emit of its worker always finds the
\* invocation's subscriber on the signal; and no step ever takes a callback
\* off a signal or moves one.
C14_AttachedBeforeStart ==
    /\ [](wpc # "none" => AllAttached(cur))
    /\ [](wpc \in {"emit", "on_finished"} =>
            \E k \in frame.i .. Len(signals[frame.sig]) :
                signals[frame.sig][k].job = cur)
    /\ [][\A g \in Signals :
            /\ Len(signals'[g]) >= Len(signals[g])
            /\ SubSeq(signals'[g], 1, Len(signals[g])) = signals[g]]_vars

C14_Witness ==
    /\ wpc = "emit"
    /\ frame.sig = "chapters_detected"
    /\ cur = 2
    /\ Current = Callback("on_chapters_detected", 2)

\* the default decision on the chapters is on the thread object of job j
DefaultDecision(j) ==
    /\ thread[j].save_chapters_separately = FALSE
    /\ thread[j].merge_chapters_at_end = TRUE

\* C15: a thread object whose _chapter_options_event is set carries the
\* default decision; and when the emit of chapters_detected has returned to
\* run(), on_chapters_detected has run inside it, so the worker at its wait
\* finds the event set and the default decision applied.
C15_DefaultsBeforeEvent ==
    /\ \A j \in Jobs : thread[j].event => DefaultDecision(j)
    /\ wpc = "wait" => thread[cur].event /\ DefaultDecision(cur)

C15_Witness ==
    /\ wpc = "wait"
    /\ cur = 2
    /\ thread[cur].event /\ DefaultDecision(cur)
    /\ budget = 0

\* no emit of the worker is in flight
NoEmitInFlight == wpc \in {"run", "wait", "terminated"}

\* C16 as claimed: an emit of the invocation's worker invokes only callbacks
\* that this invocation connected, so each published log line is appended to
\* the log list once, and only the invocation's own result_container is
\* written. The callbacks of earlier invocations are never taken off the
\* signals, which all ConversionThread objects share.
C16_OnlyOwnSubscribersInvoked ==
    /\ wpc \in {"emit", "on_finished"} => Current.job = cur
    /\ NoEmitInFlight => Len(appended) = 1 + Len(published)
    /\ \A i \in 1 .. Len(rc_accesses) : rc_accesses[i].job = cur

\* C18: a step of emit (entering it, or one iteration of its loop) leaves
\* the callbacks list as it was; an emit on a signal with no callback
\* returns at once with nothing called and nothing printed; and the only
\* change a step makes to the list is connect's: the callback of the connect
\* call is put after the callbacks already there, which stay in their order.
C18_EmitLeavesChannel ==
    [][/\ s_pc' # "idle" => s_callbacks' = s_callbacks
       /\ s_pc \in {"idle", "returned"} /\ s_pc' # "idle" /\ s_callbacks = <<>> =>
             /\ s_pc' = "returned"
             /\ s_calls' = <<>> /\ s_printed' = 0
             /\ s_callbacks' = <<>> /\ s_connected' = s_connected
       /\ s_callbacks' # s_callbacks \/ s_connected' # s_connected =>
             /\ Len(s_connected') = Len(s_connected) + 1
             /\ s_callbacks' = s_callbacks \o <<s_connected'[Len(s_connected')]>>
      ]_vars

C18_Witness ==
    /\ s_pc = "returned"
    /\ Len(s_calls) = 2
    /\ s_calls[1].raised
    /\ s_callbacks = <<2, 1>>
    /\ s_connected = <<2, 1>>

\* the lines of text are lines of own, and text holds all of own in order
OwnLinesOnly(text, own) ==
    /\ ContainsInOrder(own, text)
    /\ \A k \in 1 .. Len(text) : \E i \in 1 .. Len(own) : text[k] = own[i]

\* C17 as claimed: when two invocations overlap, the log text each returns
\* holds the lines of its own job, all of them and in order, and no line of
\* the other job. Both invocations reset and fill the one module-level log
\* list.
C17_OverlapKeepsOwnLines ==
    /\ hpc = "returned" /\ wpc = "terminated" =>
          OwnLinesOnly(Lines(ret.msg), Produced)
    /\ o_hpc = "returned" =>
          OwnLinesOnly(Lines(o_ret.msg), <<LoadingLine>> \o o_published)

====
